---- MODULE Spec2Model ----
(***************************************************************************)
(* The Forex Market Analyzer.                                              *)
(*                                                                         *)
(* The function-calling orchestration loop                                 *)
(* (src/app.py): run_analysis drives a bounded multi-turn exchange with    *)
(* the LLM client, dispatches the tool calls the model requests through    *)
(* execute_function_call against AVAILABLE_FUNCTIONS, and returns an       *)
(* execution log with a final answer.  Specification Spec.                 *)
(*                                                                         *)
(* The analysis capabilities (src/utils/smc_functions.py) and the live     *)
(* data provider (src/utils/polygon_api.py, falling back to                *)
(* src/utils/polygon_mock.py) are functions; SpecCapabilities and          *)
(* SpecProvider call them directly on inputs drawn from bounded sets.      *)
(*                                                                         *)
(* Python values are modelled as follows.  A str is a sequence of tokens   *)
(* (an f-string is the sequence of its pieces).  A value that may be None  *)
(* is wrapped: NoneValue, or Some(v).  An exception is a record with its   *)
(* class (type) and its str() text (msg).  The LLM client, the JSON texts  *)
(* it generates and the capabilities' bodies are the environment of the    *)
(* loop: their behaviour is chosen nondeterministically.                   *)
(***************************************************************************)
EXTENDS Integers, Sequences, FiniteSets, TLC

VARIABLES
    pc,             \* position of run_analysis: "loop" (the while condition),
                    \* "tools" (the for loop), "returned", "raised" (left by an exception)
    iteration,      \* the local iteration counter
    messages,       \* the conversation transcript
    execution_log,  \* the execution log
    tool_calls,     \* response_message.tool_calls of the response being processed
    tc_index,       \* position of the for loop in tool_calls
    returned,       \* the pair run_analysis returned (NoReturn until it returns)
    llm_requests,   \* client side: number of chat.completions.create calls received
    invoked,        \* registry side: names of the capabilities whose body ran, in order
    last_dispatch,  \* the last execute_function_call: its inputs and its outcome
    handled,        \* exceptions that reached the except clause of run_analysis
    llm_request,    \* client side: the last chat.completions.create request received
    llm_reply,      \* client side: what the last LLM-call step yielded
    direct_call,    \* the last direct call of a capability or of the provider
    suspended,      \* the locals of a second run_analysis call, which is not running
    odd             \* environment: deviations from the plain exchange used so far

vars == <<pc, iteration, messages, execution_log, tool_calls, tc_index, returned,
          llm_requests, invoked, last_dispatch, handled, llm_request, llm_reply,
          direct_call, suspended, odd>>

---------------------------------------------------------------------------
(* Bounds of the exploration *)

\* most tool-call requests in one LLM response
MaxCalls == 2

\* most deviations of the environment from the plain exchange in one run: the
\* plain exchange is turns that request get_forex_data once with well-formed
\* arguments, which returns, ended by a final text answer (see Cost)
MaxOdd == 1

\* longest candle sequence of a snapshot handed to an analysis capability
MaxCandles == 50

\* most aggregates the live client returns for one request
MaxAggs == 2

\* most seconds the clock moves on between two candles of the generator
MaxTick == 1

---------------------------------------------------------------------------
(* Python values *)

NoneValue == [is_none |-> TRUE, v |-> <<>>]

Some(x) == [is_none |-> FALSE, v |-> x]

\* an exception object: its class and str(e)
Exc(type, msg) == [type |-> type, msg |-> msg]

\* the classes below all derive from Exception
ExceptionSubclasses ==
    {"APIConnectionError", "IndexError", "JSONDecodeError", "TypeError", "KeyError",
     "FileNotFoundError", "AuthError", "BadResponse"}

Raise(e) == [raised |-> TRUE, exc |-> e, value |-> NoneValue]

Return(x) == [raised |-> FALSE, exc |-> Exc("", <<>>), value |-> x]

---------------------------------------------------------------------------
(* Program constants and tables *)

max_iterations == 10

max_tokens == 4000

SYSTEM_PROMPT == <<"You are an elite forex analyst ...">>

\* the registry: each registered name with the parameters of the function
\* registered under it (none has a default value, *args or **kwargs)
AVAILABLE_FUNCTIONS ==
    [n \in {"get_forex_data", "analyze_higher_timeframe_structure",
            "identify_confluences", "detect_news_impact_zones", "detect_bos",
            "detect_choch", "detect_market_structure_break",
            "detect_liquidity_sweep", "identify_liquidity_pools",
            "detect_liquidity_void", "identify_order_blocks",
            "identify_fair_value_gaps", "identify_breaker_blocks",
            "calculate_premium_discount_zones", "detect_imbalances",
            "detect_inefficiencies", "analyze_volume_profile",
            "detect_smart_money_divergence", "analyze_order_flow",
            "analyze_session_characteristics", "identify_manipulation_patterns",
            "calculate_institutional_levels", "detect_wyckoff_phases",
            "identify_turtle_soup_setups"} |->
        CASE n = "get_forex_data" -> {"pair", "timeframe"}
          [] n = "analyze_higher_timeframe_structure" -> {"pair", "current_timeframe"}
          [] n = "identify_confluences" -> {"pair", "timeframe"}
          [] n = "detect_news_impact_zones" -> {"pair"}
          [] n = "detect_bos" -> {"data", "timeframe"}
          [] OTHER -> {"data"}]

\* a catalog entry that still carries the name get_forex_data had before a rename
SchemaUnderOldName(name, properties, required) ==
    [type |-> "function",
     name |-> IF name = "get_forex_data" THEN "get_market_data" ELSE name,
     properties |-> properties, required |-> required]

\* a catalog entry that advertises the parameter pair under the name symbol
SchemaRenamesPair(name, properties, required) ==
    [type |-> "function", name |-> name,
     properties |-> {IF p = "pair" THEN "symbol" ELSE p : p \in properties},
     required |-> [i \in DOMAIN required |->
                     IF required[i] = "pair" THEN "symbol" ELSE required[i]]]

\* one entry of the catalog: function.name, the keys of
\* function.parameters.properties, function.parameters.required
Schema(name, properties, required) ==
    [type |-> "function", name |-> name, properties |-> properties, required |-> required]

\* the tool schema catalog, in source order
FUNCTION_SCHEMAS ==
    <<Schema("get_forex_data", {"pair", "timeframe"}, <<"pair", "timeframe">>),
      Schema("detect_bos", {"data", "timeframe"}, <<"data", "timeframe">>),
      Schema("detect_choch", {"data"}, <<"data">>),
      Schema("detect_market_structure_break", {"data"}, <<"data">>),
      Schema("detect_liquidity_sweep", {"data"}, <<"data">>),
      Schema("identify_liquidity_pools", {"data"}, <<"data">>),
      Schema("detect_liquidity_void", {"data"}, <<"data">>),
      Schema("identify_order_blocks", {"data"}, <<"data">>),
      Schema("identify_fair_value_gaps", {"data"}, <<"data">>),
      Schema("identify_breaker_blocks", {"data"}, <<"data">>),
      Schema("calculate_premium_discount_zones", {"data"}, <<"data">>),
      Schema("detect_imbalances", {"data"}, <<"data">>),
      Schema("detect_inefficiencies", {"data"}, <<"data">>),
      Schema("analyze_volume_profile", {"data"}, <<"data">>),
      Schema("detect_smart_money_divergence", {"data"}, <<"data">>),
      Schema("analyze_order_flow", {"data"}, <<"data">>),
      Schema("analyze_higher_timeframe_structure", {"pair", "current_timeframe"},
             <<"pair", "current_timeframe">>),
      Schema("identify_confluences", {"pair", "timeframe"}, <<"pair", "timeframe">>),
      Schema("analyze_session_characteristics", {"data"}, <<"data">>),
      Schema("detect_news_impact_zones", {"pair"}, <<"pair">>),
      Schema("identify_manipulation_patterns", {"data"}, <<"data">>),
      Schema("calculate_institutional_levels", {"data"}, <<"data">>),
      Schema("detect_wyckoff_phases", {"data"}, <<"data">>),
      Schema("identify_turtle_soup_setups", {"data"}, <<"data">>)>>

---------------------------------------------------------------------------
(* JSON texts and the json module *)

\* the text of a JSON object with the given member names
ObjectText(keys) == [json |-> "object", keys |-> keys]

\* the text of a JSON array
ArrayText == [json |-> "array", keys |-> {}]

\* a text that is not JSON (truncated, trailing comma, ...)
InvalidText == [json |-> "invalid", keys |-> {}]

\* json.loads: a dict for an object, a list for an array, JSONDecodeError otherwise
json_loads(text) ==
    CASE text.json = "object" -> Return([type |-> "dict", keys |-> text.keys])
      [] text.json = "array" -> Return([type |-> "list", keys |-> {}])
      [] OTHER -> Raise(Exc("JSONDecodeError", <<"Expecting value: line 1 column 1 (char 0)">>))

\* str() of a dispatch result: the repr of the dict, which is no JSON text
json_dumps_Repr(result) == [json |-> "invalid", of |-> result]

\* json.dumps of a dispatch result: the text that serializes it
json_dumps(result) == [json |-> "object", of |-> result]

---------------------------------------------------------------------------
(* Dispatch *)

ErrorRecord(text) == [error |-> text]

\* what the body of a capability does once it runs
BodyReturns(findings) == [raises |-> FALSE, value |-> findings, exc |-> Exc("", <<>>)]

BodyRaises(e) == [raises |-> TRUE, value |-> NoneValue, exc |-> e]

\* a call that passes the arguments on without binding them, as to a
\* function declared with **kwargs
CallFunctionLenient(function_name, function_args, body) ==
    IF body.raises
    THEN [out |-> Raise(body.exc), ran |-> TRUE]
    ELSE [out |-> Return(body.value), ran |-> TRUE]

\* function(**function_args): Python binds the keywords to the parameters
\* before the body runs; `ran` tells whether the body was entered
CallFunction(function_name, function_args, body) ==
    LET params == AVAILABLE_FUNCTIONS[function_name]
    IN  IF function_args.type # "dict"
        THEN [out |-> Raise(Exc("TypeError",
                        <<function_name, "() argument after ** must be a mapping, not ",
                          function_args.type>>)),
              ran |-> FALSE]
        ELSE IF function_args.keys \ params # {}
        THEN [out |-> Raise(Exc("TypeError",
                        <<function_name, "() got an unexpected keyword argument">>)),
              ran |-> FALSE]
        ELSE IF params \ function_args.keys # {}
        THEN [out |-> Raise(Exc("TypeError",
                        <<function_name, "() missing required positional argument">>)),
              ran |-> FALSE]
        ELSE IF body.raises
        THEN [out |-> Raise(body.exc), ran |-> TRUE]
        ELSE [out |-> Return(body.value), ran |-> TRUE]

\* an except clause that catches nothing
DispatchCatchesNothing(e) == FALSE

\* an except clause that names TypeError only
DispatchCatchesTypeErrors(e) == e.type = "TypeError"

\* `except Exception` of execute_function_call: catches every class that
\* derives from Exception
DispatchCatches(e) == e.type \in ExceptionSubclasses

\* a dispatcher without the try statement: what the call raises, it raises
execute_function_call_Raising(function_name, function_args, body) ==
    IF function_name \notin DOMAIN AVAILABLE_FUNCTIONS
    THEN [out |-> Return(ErrorRecord(<<"Function ", function_name, " not found">>)),
          ran |-> FALSE]
    ELSE CallFunction(function_name, function_args, body)

\* a dispatcher whose not-found record does not say which name was asked for
execute_function_call_Anonymous(function_name, function_args, body) ==
    IF function_name \notin DOMAIN AVAILABLE_FUNCTIONS
    THEN [out |-> Return(ErrorRecord(<<"Function not found">>)), ran |-> FALSE]
    ELSE LET call == CallFunction(function_name, function_args, body)
         IN  IF call.out.raised /\ DispatchCatches(call.out.exc)
             THEN [out |-> Return(ErrorRecord(call.out.exc.msg)), ran |-> call.ran]
             ELSE call

\* execute_function_call(function_name, function_args), with what the body
\* of the capability does if it is reached; `out` is what the call yields
\* and `ran` whether a capability body was entered
execute_function_call(function_name, function_args, body) ==
    IF function_name \notin DOMAIN AVAILABLE_FUNCTIONS
    THEN [out |-> Return(ErrorRecord(<<"Function ", function_name, " not found">>)),
          ran |-> FALSE]
    ELSE LET call == CallFunction(function_name, function_args, body)
         IN  IF call.out.raised /\ DispatchCatches(call.out.exc)
             THEN [out |-> Return(ErrorRecord(call.out.exc.msg)), ran |-> call.ran]
             ELSE call

---------------------------------------------------------------------------
(* The environment: what the LLM client and the capabilities may do *)

\* one user query
Query == <<"Find order blocks on AUDUSD 1H">>

\* names the model may request: two registered ones and one that is not
ToolNames == {"get_forex_data", "detect_news_impact_zones", "get_stock_data"}

\* argument texts the model may generate
ArgTexts ==
    {ObjectText({"pair", "timeframe"}), ObjectText({"pair"}), ArrayText, InvalidText}

\* a tool-call request: tool_call.id, tool_call.function.name, .arguments
ToolCall(id, name, arguments) == [id |-> id, name |-> name, arguments |-> arguments]

\* the request the system prompt asks for first
IsPlain(kind) ==
    kind.name = "get_forex_data" /\ kind.arguments = ObjectText({"pair", "timeframe"})

CallKinds == [name : ToolNames, arguments : ArgTexts]

PlainKind == [name |-> "get_forex_data", arguments |-> ObjectText({"pair", "timeframe"})]

OddCount(kinds) == Cardinality({i \in DOMAIN kinds : ~IsPlain(kinds[i])})

Max(a, b) == IF a >= b THEN a ELSE b

\* deviations a response with these requests uses up: its requests beyond
\* the first or its requests that are not plain, whichever are more
Cost(kinds) == Max(Len(kinds) - 1, OddCount(kinds))

\* the request lists of n requests that use at most `budget` deviations
KindLists(n, budget) ==
    IF budget < n - 1 THEN {}
    ELSE IF budget = 0 THEN {<<PlainKind>>}
    ELSE {kinds \in [1..n -> CallKinds] : Cost(kinds) <= budget}

\* the i-th request of turn `turn` carries the identifier <<turn, i>>
WithIds(kinds, turn) ==
    [i \in DOMAIN kinds |-> ToolCall(<<turn, i>>, kinds[i].name, kinds[i].arguments)]

\* response.choices[0].message of a well-formed response
Message(content, calls) == [role |-> "assistant", content |-> content, tool_calls |-> calls]

\* what the LLM-call step (create, then choices[0].message) can yield on
\* turn `turn`: a message without tool calls (None or an empty list), the
\* client raising, a response without choices, a message with tool calls
ClientReplies(turn, budget) ==
    {Return(Message(Some(<<"Trade setup: NO TRADE">>), NoneValue))}
    \cup (IF budget > 0
          THEN {Raise(Exc("APIConnectionError", <<"Connection error.">>)),
                Raise(Exc("IndexError", <<"list index out of range">>)),
                Return(Message(NoneValue, Some(<<>>)))}
          ELSE {})
    \cup {Return(Message(NoneValue, Some(WithIds(kinds, turn)))) :
            kinds \in UNION {KindLists(n, budget) : n \in 1..MaxCalls}}

\* the FindingsRecord a capability returns
Findings(function_name) == [findings |-> function_name]

\* what the body of the capability may do if this dispatch reaches it
Bodies(function_name, budget) ==
    {BodyReturns(Findings(function_name))}
    \cup (IF budget > 0 THEN {BodyRaises(Exc("KeyError", <<"'candles'">>))} ELSE {})

\* whether execute_function_call reaches the body of a capability
ReachesBody(function_name, function_args) ==
    /\ function_name \in DOMAIN AVAILABLE_FUNCTIONS
    /\ CallFunction(function_name, function_args, BodyReturns(Findings(function_name))).ran

---------------------------------------------------------------------------
(* run_analysis *)

NoReturn == [done |-> FALSE, log |-> <<>>, answer |-> NoneValue]

\* a return that puts the empty text in place of a None answer
ReturnPairAnswerOrEmpty(log, answer) ==
    [done |-> TRUE, log |-> log, answer |-> IF answer.is_none THEN Some(<<>>) ELSE answer]

ReturnPair(log, answer) == [done |-> TRUE, log |-> log, answer |-> answer]

NoDispatch ==
    [called |-> FALSE, name |-> "", args |-> NoneValue, body |-> NoneValue,
     out |-> Return(NoneValue), ran |-> FALSE]

ExceededMessage ==
    <<"Analysis exceeded maximum iterations. Please try again with a simpler query.">>

\* a test for None only, where `not x` is meant
FalsyNoneOnly(x) == x.is_none

\* `not x` for a value that is None or a list
Falsy(x) == x.is_none \/ x.v = <<>>

\* the model the caller selected
Model == "llama-3.3-70b-versatile"

NoRequest ==
    [sent |-> FALSE, model |-> "", messages |-> <<>>, tools |-> <<>>,
     tool_choice |-> "", temperature |-> "", max_tokens |-> 0]

\* a request that carries the fixed opening of the transcript only
CreateRequestOpeningOnly(transcript) ==
    [sent |-> TRUE, model |-> Model, messages |-> SubSeq(transcript, 1, 2),
     tools |-> FUNCTION_SCHEMAS, tool_choice |-> "auto", temperature |-> "0.7",
     max_tokens |-> max_tokens]

\* the keyword arguments of client.chat.completions.create
CreateRequest(transcript) ==
    [sent |-> TRUE, model |-> Model, messages |-> transcript,
     tools |-> FUNCTION_SCHEMAS, tool_choice |-> "auto", temperature |-> "0.7",
     max_tokens |-> max_tokens]

\* before any LLM-call step
NoReply == [raised |-> FALSE, exc |-> Exc("", <<>>), value |-> NoneValue]

\* no capability and no provider has been called directly
NoDirectCall ==
    [function |-> "", args |-> NoneValue, env |-> NoneValue, out |-> Return(NoneValue)]

\* the query of a second caller
OtherQuery == <<"Is EURUSD bullish on 4h">>

\* the locals of a call run_analysis(query, model, client) when it enters the
\* loop, with what its client and the registry have seen of it
FirstFrame(query) ==
    [pc |-> "loop", iteration |-> 0,
     messages |-> <<[role |-> "system", content |-> SYSTEM_PROMPT],
                    [role |-> "user", content |-> query]>>,
     execution_log |-> <<>>, tool_calls |-> <<>>, tc_index |-> 0,
     returned |-> NoReturn, llm_requests |-> 0, invoked |-> <<>>,
     last_dispatch |-> NoDispatch, handled |-> <<>>,
     llm_request |-> NoRequest, llm_reply |-> NoReply]

\* a transcript that opens with the user's query, the system prompt left out
InitWithoutSystemPrompt ==
    /\ pc = "loop"
    /\ iteration = 0
    /\ messages = <<[role |-> "user", content |-> Query]>>
    /\ execution_log = <<>>
    /\ tool_calls = <<>>
    /\ tc_index = 0
    /\ returned = NoReturn
    /\ llm_requests = 0
    /\ invoked = <<>>
    /\ last_dispatch = NoDispatch
    /\ handled = <<>>
    /\ llm_request = NoRequest
    /\ llm_reply = NoReply
    /\ direct_call = NoDirectCall
    /\ suspended = [id |-> 2, frame |-> FirstFrame(OtherQuery)]
    /\ odd = 0

Init ==
    /\ pc = "loop"
    /\ iteration = 0
    /\ messages = <<[role |-> "system", content |-> SYSTEM_PROMPT],
                    [role |-> "user", content |-> Query]>>
    /\ execution_log = <<>>
    /\ tool_calls = <<>>
    /\ tc_index = 0
    /\ returned = NoReturn
    /\ llm_requests = 0
    /\ invoked = <<>>
    /\ last_dispatch = NoDispatch
    /\ handled = <<>>
    /\ llm_request = NoRequest
    /\ llm_reply = NoReply
    /\ direct_call = NoDirectCall
    /\ suspended = [id |-> 2, frame |-> FirstFrame(OtherQuery)]
    /\ odd = 0

\* the while condition, off by one
LoopGuardInclusive == iteration <= max_iterations

\* the while condition
LoopGuard == iteration < max_iterations

\* an except clause that names the client's error class only
LoopCatchesClientErrors(e) == e.type = "APIConnectionError"

\* `except Exception` of run_analysis
LoopCatches(e) == e.type \in ExceptionSubclasses

\* an except clause that logs the error and goes round the loop again
ExceptClauseRetries(e, it, origin, log_so_far) ==
    /\ execution_log' =
         Append(log_so_far,
                [type |-> "error", message |-> <<"Error in iteration ", it, ": ">> \o e.msg])
    /\ pc' = "loop"
    /\ handled' = Append(handled, [origin |-> origin, exc |-> e])
    /\ UNCHANGED returned

\* an except clause that also logs the answer it returns as a final response
ExceptClauseLogsAnswer(e, it, origin, log_so_far) ==
    LET error_msg == <<"Error in iteration ", it, ": ">> \o e.msg
        log == log_so_far \o <<[type |-> "error", message |-> error_msg],
                                [type |-> "final_response",
                                 content |-> Some(<<"Analysis error: ">> \o error_msg)]>>
    IN  /\ execution_log' = log
        /\ returned' = ReturnPair(log, Some(<<"Analysis error: ">> \o error_msg))
        /\ pc' = "returned"
        /\ handled' = Append(handled, [origin |-> origin, exc |-> e])

\* the try statement's except clause, entered with exception e raised by
\* `origin` during iteration `it`, log_so_far being the log at that point; an
\* exception it does not catch leaves run_analysis
ExceptClause(e, it, origin, log_so_far) ==
    IF LoopCatches(e)
    THEN LET error_msg == <<"Error in iteration ", it, ": ">> \o e.msg
             log == Append(log_so_far, [type |-> "error", message |-> error_msg])
         IN  /\ execution_log' = log
             /\ returned' = ReturnPair(log, Some(<<"Analysis error: ">> \o error_msg))
             /\ pc' = "returned"
             /\ handled' = Append(handled, [origin |-> origin, exc |-> e])
    ELSE /\ pc' = "raised"
         /\ execution_log' = log_so_far
         /\ UNCHANGED <<returned, handled>>

\* one pass of the while body up to the for loop: the LLM-call step and the
\* check for a final response
CallLLM ==
    /\ pc = "loop"
    /\ LoopGuard
    /\ iteration' = iteration + 1
    /\ llm_requests' = llm_requests + 1
    /\ llm_request' = CreateRequest(messages)
    /\ \E reply \in ClientReplies(iteration + 1, MaxOdd - odd) :
      /\ llm_reply' = reply
      /\
        IF reply.raised
        THEN /\ ExceptClause(reply.exc, iteration + 1, "llm", execution_log)
             /\ UNCHANGED <<messages, tool_calls, tc_index, odd>>
        ELSE LET response_message == reply.value
             IN  IF Falsy(response_message.tool_calls)
                 THEN LET log == Append(execution_log,
                                   [type |-> "final_response",
                                    content |-> response_message.content])
                      IN  /\ execution_log' = log
                          /\ returned' = ReturnPair(log, response_message.content)
                          /\ pc' = "returned"
                          /\ UNCHANGED <<messages, tool_calls, tc_index, odd, handled>>
                 ELSE /\ messages' = Append(messages, response_message)
                      /\ tool_calls' = response_message.tool_calls.v
                      /\ IF response_message.tool_calls.v = <<>>
                         THEN tc_index' = 0 /\ pc' = "loop"
                         ELSE tc_index' = 1 /\ pc' = "tools"
                      /\ odd' = odd + Cost(response_message.tool_calls.v)
                      /\ UNCHANGED <<execution_log, returned, handled>>
    /\ UNCHANGED <<invoked, last_dispatch, direct_call, suspended>>

\* a for loop that takes the requests last to first
CurrentToolCallReversed == tool_calls[Len(tool_calls) - tc_index + 1]

\* the request the for loop is at
CurrentToolCall == tool_calls[tc_index]

\* one pass of the for loop over response_message.tool_calls
ProcessToolCall ==
    /\ pc = "tools"
    /\ LET tool_call == CurrentToolCall
           function_name == tool_call.name
           parsed == json_loads(tool_call.arguments)
       IN  IF parsed.raised
           THEN /\ ExceptClause(parsed.exc, iteration, "arguments", execution_log)
                /\ UNCHANGED <<messages, tc_index, invoked, last_dispatch, odd>>
           ELSE LET function_args == parsed.value
                IN  \E body \in Bodies(function_name,
                                       IF ReachesBody(function_name, function_args)
                                       THEN MaxOdd - odd ELSE 0) :
                      LET call == execute_function_call(function_name, function_args, body)
                          function_result == call.out.value
                          call_entry == [type |-> "function_call",
                                         function |-> function_name,
                                         arguments |-> function_args]
                          result_entry == [type |-> "function_result",
                                           function |-> function_name,
                                           result |-> function_result]
                      IN  /\ invoked' = IF call.ran THEN Append(invoked, function_name)
                                        ELSE invoked
                          /\ last_dispatch' =
                               [called |-> TRUE, name |-> function_name,
                                args |-> function_args, body |-> body,
                                out |-> call.out, ran |-> call.ran]
                          /\ odd' = IF body.raises THEN odd + 1 ELSE odd
                          /\ IF call.out.raised
                             THEN /\ ExceptClause(call.out.exc, iteration, "dispatch",
                                                  Append(execution_log, call_entry))
                                  /\ UNCHANGED <<messages, tc_index>>
                             ELSE /\ execution_log' =
                                       execution_log \o <<call_entry, result_entry>>
                                  /\ messages' =
                                       Append(messages,
                                              [role |-> "tool",
                                               tool_call_id |-> tool_call.id,
                                               name |-> function_name,
                                               content |-> json_dumps(function_result)])
                                  /\ IF tc_index < Len(tool_calls)
                                     THEN /\ tc_index' = tc_index + 1
                                          /\ pc' = "tools"
                                     ELSE /\ tc_index' = 0
                                          /\ pc' = "loop"
                                  /\ UNCHANGED <<returned, handled>>
    /\ UNCHANGED <<iteration, tool_calls, llm_requests, llm_request, llm_reply,
                   direct_call, suspended>>

\* a return after the loop that closes the log with a final_response entry
ReturnExceededLogsFinal ==
    /\ pc = "loop"
    /\ ~LoopGuard
    /\ execution_log' =
         Append(execution_log, [type |-> "final_response", content |-> Some(ExceededMessage)])
    /\ returned' = ReturnPair(execution_log', Some(ExceededMessage))
    /\ pc' = "returned"
    /\ UNCHANGED <<iteration, messages, tool_calls, tc_index,
                   llm_requests, invoked, last_dispatch, handled,
                   llm_request, llm_reply, direct_call, suspended, odd>>

\* the while condition fails: the return after the loop
ReturnExceeded ==
    /\ pc = "loop"
    /\ ~LoopGuard
    /\ returned' = ReturnPair(execution_log, Some(ExceededMessage))
    /\ pc' = "returned"
    /\ UNCHANGED <<iteration, messages, execution_log, tool_calls, tc_index,
                   llm_requests, invoked, last_dispatch, handled,
                   llm_request, llm_reply, direct_call, suspended, odd>>

Next == CallLLM \/ ProcessToolCall \/ ReturnExceeded

Spec == Init /\ [][Next]_vars

\* the variables of the orchestration loop
run_vars ==
    <<pc, iteration, messages, execution_log, tool_calls, tc_index, returned,
      llm_requests, invoked, last_dispatch, handled, llm_request, llm_reply,
      suspended, odd>>

---------------------------------------------------------------------------
(* Two calls of run_analysis in one process, their steps interleaved *)

\* the names app.py binds at module level and run_analysis reads: every
\* call sees the same object under them
ModuleLevel == {"SYSTEM_PROMPT", "AVAILABLE_FUNCTIONS", "FUNCTION_SCHEMAS"}

\* the objects run_analysis changes in place (its append sites), by name
RunChangesInPlace == {"messages", "execution_log"}

\* the locals of the call that is running, with what its client and the
\* registry have seen of it
Frame ==
    [pc |-> pc, iteration |-> iteration, messages |-> messages,
     execution_log |-> execution_log, tool_calls |-> tool_calls,
     tc_index |-> tc_index, returned |-> returned, llm_requests |-> llm_requests,
     invoked |-> invoked, last_dispatch |-> last_dispatch, handled |-> handled,
     llm_request |-> llm_request, llm_reply |-> llm_reply]

\* a log that is one list for the whole process
ResumedOnSharedLog(frame, current) ==
    [frame EXCEPT !.execution_log = current.execution_log]

\* what a call goes on with when it is scheduled again, `frame` being its
\* locals when it was suspended and `current` those of the call that ran
\* meanwhile: a name assigned in run_analysis is bound per call, one bound
\* at module level is the same object for both
Resumed(frame, current) ==
    [n \in DOMAIN frame |-> IF n \in ModuleLevel THEN current[n] ELSE frame[n]]

\* the scheduler takes the running call off and puts the other one on
Switch ==
    LET next == Resumed(suspended.frame, Frame)
    IN  /\ pc' = next.pc
        /\ iteration' = next.iteration
        /\ messages' = next.messages
        /\ execution_log' = next.execution_log
        /\ tool_calls' = next.tool_calls
        /\ tc_index' = next.tc_index
        /\ returned' = next.returned
        /\ llm_requests' = next.llm_requests
        /\ invoked' = next.invoked
        /\ last_dispatch' = next.last_dispatch
        /\ handled' = next.handled
        /\ llm_request' = next.llm_request
        /\ llm_reply' = next.llm_reply
        /\ suspended' = [id |-> 3 - suspended.id, frame |-> Frame]
        /\ UNCHANGED <<direct_call, odd>>

\* the LLM-call step of the running call, while the two calls together have
\* made fewer than MaxCalls requests
CallLLMOfTwo ==
    /\ llm_requests + suspended.frame.llm_requests < MaxCalls
    /\ CallLLM

NextOfTwo == CallLLMOfTwo \/ ProcessToolCall \/ Switch

SpecOfTwo == Init /\ [][NextOfTwo]_vars

---------------------------------------------------------------------------
(* The analysis capabilities that ask for a minimum of candles *)

\* d.get(key, default) of a dict d
DictGet(d, key, default) == IF key \in DOMAIN d THEN d[key] ELSE default

\* the candle count below which each capability gives up
MinCandles ==
    [n \in {"detect_bos", "detect_choch", "detect_market_structure_break",
            "detect_liquidity_sweep", "identify_liquidity_pools",
            "detect_liquidity_void", "identify_order_blocks",
            "identify_fair_value_gaps", "identify_breaker_blocks",
            "calculate_premium_discount_zones", "detect_imbalances",
            "detect_inefficiencies", "analyze_volume_profile",
            "detect_smart_money_divergence", "analyze_order_flow",
            "identify_manipulation_patterns", "detect_wyckoff_phases",
            "identify_turtle_soup_setups"} |->
        CASE n \in {"detect_bos", "identify_fair_value_gaps", "analyze_order_flow"} -> 20
          [] n \in {"detect_market_structure_break", "detect_imbalances"} -> 25
          [] n \in {"identify_liquidity_pools", "identify_breaker_blocks",
                    "analyze_volume_profile", "detect_smart_money_divergence"} -> 40
          [] n \in {"identify_order_blocks", "calculate_premium_discount_zones",
                    "detect_wyckoff_phases"} -> 50
          [] OTHER -> 30]

\* the record each capability returns when it gives up
InsufficientRecord(function_name) ==
    CASE function_name = "detect_bos" ->
           [detected |-> FALSE, message |-> <<"Insufficient data", " for BOS detection">>]
      [] function_name = "detect_choch" ->
           [detected |-> FALSE, message |-> <<"Insufficient data", " for CHoCH detection">>]
      [] function_name = "detect_market_structure_break" ->
           [detected |-> FALSE, message |-> <<"Insufficient data", " for MSB detection">>]
      [] function_name = "detect_liquidity_sweep" ->
           [sweeps |-> <<>>, message |-> <<"Insufficient data">>]
      [] function_name = "identify_liquidity_pools" ->
           [pools |-> <<>>, message |-> <<"Insufficient data">>]
      [] function_name = "detect_liquidity_void" ->
           [voids |-> <<>>, message |-> <<"Insufficient data">>]
      [] function_name = "identify_order_blocks" ->
           [order_blocks |-> <<>>, message |-> <<"Insufficient data">>]
      [] function_name = "identify_fair_value_gaps" ->
           [fvgs |-> <<>>, message |-> <<"Insufficient data">>]
      [] function_name = "identify_breaker_blocks" ->
           [breaker_blocks |-> <<>>, message |-> <<"Insufficient data">>]
      [] function_name = "calculate_premium_discount_zones" ->
           [zones |-> <<>>, message |-> <<"Insufficient data">>]
      [] function_name = "detect_imbalances" ->
           [imbalances |-> <<>>, message |-> <<"Insufficient data">>]
      [] function_name = "detect_inefficiencies" ->
           [inefficiencies |-> <<>>, message |-> <<"Insufficient data">>]
      [] function_name = "analyze_volume_profile" ->
           [profile |-> <<>>, message |-> <<"Insufficient data">>]
      [] function_name = "detect_smart_money_divergence" ->
           [divergence |-> NoneValue, message |-> <<"Insufficient data">>]
      [] function_name = "analyze_order_flow" ->
           [flow |-> <<>>, message |-> <<"Insufficient data">>]
      [] function_name = "identify_manipulation_patterns" ->
           [manipulations |-> <<>>, message |-> <<"Insufficient data">>]
      [] function_name = "detect_wyckoff_phases" ->
           [phase |-> NoneValue, message |-> <<"Insufficient data">>]
      [] OTHER ->
           [setups |-> <<>>, message |-> <<"Insufficient data">>]

\* a guard that gives up on an empty candle sequence only
TooFewCandlesEmptyOnly(candles, minimum) == Len(candles) = 0

\* `if len(candles) < minimum`
TooFewCandles(candles, minimum) == Len(candles) < minimum

\* the smaller of two numbers
Min(a, b) == IF a < b THEN a ELSE b

\* where an index of a slice lands in a list of n items: a negative one
\* counts from the end, and both ends are clamped
SliceIndex(n, i) == IF i < 0 THEN Max(n + i, 0) ELSE Min(i, n)

\* seq[start:stop] of a list, positions counted from 0
PySlice(seq, start, stop) ==
    SubSeq(seq, SliceIndex(Len(seq), start) + 1, SliceIndex(Len(seq), stop))

\* seq[-k:]
LastOf(seq, k) == PySlice(seq, 0 - k, Len(seq))

\* what the random draws of a capability decide about its reads of the
\* candles: the number of passes of its loop (random.randint), or 1 or 0
\* for a branch on random.random() that is taken or not; 1 where the reads
\* do not depend on a draw, 0 where the capability reads no candle
Counts(function_name) ==
    CASE function_name \in {"detect_liquidity_sweep", "identify_breaker_blocks"} -> 0..2
      [] function_name = "identify_liquidity_pools" -> 1..3
      [] function_name = "identify_order_blocks" -> 2..4
      [] function_name \in {"identify_fair_value_gaps", "calculate_premium_discount_zones",
                            "analyze_volume_profile", "analyze_order_flow"} -> {1}
      [] function_name \in {"detect_smart_money_divergence", "detect_wyckoff_phases"} -> {0}
      [] OTHER -> 0..1

\* the slices of the candles a capability hands to max() or min(), or draws
\* an index of with random.randint(0, len - 1), or divides by the length
\* of, without a test that they hold a candle
Windows(function_name, candles, count) ==
    LET n == Len(candles)
    IN  CASE function_name = "detect_bos" ->
               {PySlice(LastOf(candles, 20), 0, 0 - 5) : i \in 1..count}
          [] function_name = "detect_choch" ->
               UNION {{PySlice(LastOf(candles, 15), 0, 10),
                       PySlice(LastOf(candles, 15), 10, 15)} : i \in 1..count}
          [] function_name = "detect_market_structure_break" ->
               {PySlice(LastOf(candles, 25), 0, 15) : i \in 1..count}
          [] function_name = "detect_liquidity_sweep" ->
               {PySlice(candles, 0 - (30 + i * 10), 15 - (30 + i * 10)) : i \in 0..(count - 1)}
          [] function_name = "identify_liquidity_pools" ->
               {PySlice(candles, 0 - (15 + i * 15 + 20), 0 - (15 + i * 15)) : i \in 0..(count - 1)}
          [] function_name = "calculate_premium_discount_zones" -> {LastOf(candles, 50)}
          [] function_name = "detect_inefficiencies" ->
               {PySlice(candles, i, i + 5) :
                  i \in {j \in (n - 29)..(n - 5) : j >= 5 /\ count > 0}}
          [] function_name = "analyze_volume_profile" -> {LastOf(candles, 40)}
          [] function_name = "analyze_order_flow" -> {LastOf(candles, 20)}
          [] function_name = "identify_manipulation_patterns" ->
               {LastOf(candles, 15) : i \in 1..count}
          [] function_name = "identify_turtle_soup_setups" ->
               {PySlice(LastOf(candles, 20), 0, 10) : i \in 1..count}
          [] OTHER -> {}

\* capabilities that sort the candles they were given in place
ChangedInPlaceCandles(function_name) ==
    IF function_name \in {"identify_liquidity_pools", "identify_order_blocks"}
    THEN {"candles"} ELSE {}

\* the objects a capability changes in place (append, sort, item
\* assignment), by the name it binds them to: each is a list or a dict it
\* has built itself
ChangedInPlace(function_name) ==
    CASE function_name = "detect_choch" -> {"strength_factors"}
      [] function_name = "detect_liquidity_sweep" -> {"sweeps"}
      [] function_name = "identify_liquidity_pools" -> {"pools"}
      [] function_name = "detect_liquidity_void" -> {"voids"}
      [] function_name = "identify_order_blocks" -> {"order_blocks"}
      [] function_name = "identify_fair_value_gaps" -> {"fvgs"}
      [] function_name = "identify_breaker_blocks" -> {"breakers"}
      [] function_name = "calculate_premium_discount_zones" -> {"zones"}
      [] function_name = "detect_imbalances" -> {"imbalances"}
      [] function_name = "detect_inefficiencies" -> {"inefficiencies"}
      [] function_name = "analyze_volume_profile" -> {"value_area_indices"}
      [] function_name = "analyze_session_characteristics" -> {"characteristics"}
      [] function_name = "identify_manipulation_patterns" -> {"manipulations"}
      [] function_name = "calculate_institutional_levels" -> {"institutional_levels"}
      [] function_name = "identify_turtle_soup_setups" -> {"setups"}
      [] OTHER -> {}

\* the snapshot after the body of a capability ran on it: `data` names the
\* snapshot and `candles` its candle list (candles = data.get('candles', [])
\* binds the list itself, not a copy), so a change made through either
\* name shows in the caller's snapshot
DataAfter(function_name, data) ==
    LET touched == [k \in DOMAIN data |->
                      IF k = "candles" /\ "candles" \in ChangedInPlace(function_name)
                      THEN Append(data[k], Findings(function_name))
                      ELSE data[k]]
    IN  IF "data" \in ChangedInPlace(function_name)
        THEN [k \in DOMAIN data \cup {"note"} |->
                IF k \in DOMAIN data THEN touched[k] ELSE Findings(function_name)]
        ELSE touched

\* a capability with a minimum, called with the snapshot `data`; `rest` is
\* what the reads of the candles' fields do in its analysis (a candle that
\* lacks a field raises KeyError) and `count` what its random draws decide.
\* The reads before the guard are data.get(...) with defaults, which do not
\* raise on a dict.  Of the passes of a loop the first reads a field before
\* any later one meets an empty slice.
analysis_capability(function_name, data, rest, count) ==
    LET candles == DictGet(data, "candles", <<>>)
    IN  IF TooFewCandles(candles, MinCandles[function_name])
        THEN Return(InsufficientRecord(function_name))
        ELSE IF count > 0 /\ rest.raises
        THEN Raise(rest.exc)
        ELSE IF <<>> \in Windows(function_name, candles, count)
        THEN Raise(Exc("ValueError", <<"max() arg is an empty sequence">>))
        ELSE Return(Findings(function_name))

\* the snapshot as the call of a capability with a minimum leaves it
data_after_call(function_name, data) ==
    IF TooFewCandles(DictGet(data, "candles", <<>>), MinCandles[function_name])
    THEN data
    ELSE DataAfter(function_name, data)

\* a candle sequence of n candles
Candles(n) == [k \in 1..n |-> [timestamp |-> k, close |-> "1.0934"]]

\* snapshots: whole ones, ones that hold nothing but candles, and one
\* without a candle sequence
Snapshots ==
    {[candles |-> Candles(n), current_price |-> "1.0934",
      indicators |-> [trend |-> "bullish"]] : n \in 0..MaxCandles}
    \cup {[candles |-> Candles(n)] : n \in 0..MaxCandles}
    \cup {[current_price |-> "1.0934", indicators |-> [trend |-> "bullish"]]}

\* what the reads of the candles' fields may do in the analysis after the
\* guard: every field is there, or a candle lacks one
AnalysisOutcomes(function_name) ==
    {BodyReturns(Findings(function_name)), BodyRaises(Exc("KeyError", <<"'high'">>))}

\* one direct call of a capability on a snapshot; the random draws are made
\* after the guard
CallCapability ==
    /\ direct_call = NoDirectCall
    /\ \E function_name \in DOMAIN MinCandles, data \in Snapshots :
         \E rest \in AnalysisOutcomes(function_name) :
           \E count \in IF TooFewCandles(DictGet(data, "candles", <<>>),
                                         MinCandles[function_name])
                         THEN {0} ELSE Counts(function_name) :
             direct_call' =
               [function |-> function_name, args |-> [data |-> data], env |-> rest,
                rnd |-> count,
                out |-> analysis_capability(function_name, data, rest, count),
                after |-> data_after_call(function_name, data)]
    /\ UNCHANGED run_vars

\* the capabilities without a minimum that take a snapshot
UnguardedCapabilities == {"analyze_session_characteristics", "calculate_institutional_levels"}

\* analyze_session_characteristics reads the clock only;
\* calculate_institutional_levels reads data.get('current_price', 0) and
\* raises ValueError when the first four characters of its text are no number
unguarded_capability(function_name, data, rest) ==
    IF function_name = "calculate_institutional_levels" /\ rest.raises
    THEN Raise(rest.exc)
    ELSE Return(Findings(function_name))

\* one direct call of a capability without a minimum on a snapshot
CallUnguardedCapability ==
    /\ direct_call = NoDirectCall
    /\ \E function_name \in UnguardedCapabilities :
         \E data \in {d \in Snapshots : Len(DictGet(d, "candles", <<>>)) \in {0, MaxCandles}} :
           \E rest \in {BodyReturns(Findings(function_name)),
                         BodyRaises(Exc("ValueError", <<"could not convert string to float">>))} :
             direct_call' =
               [function |-> function_name, args |-> [data |-> data], env |-> rest,
                rnd |-> 0,
                out |-> unguarded_capability(function_name, data, rest),
                after |-> DataAfter(function_name, data)]
    /\ UNCHANGED run_vars

NextCapabilities == CallCapability \/ CallUnguardedCapability

SpecCapabilities == Init /\ [][NextCapabilities]_vars

---------------------------------------------------------------------------
(* The dispatcher, called with the arguments the catalog advertises *)

\* the argument names a caller may send for a catalog entry: the advertised
\* ones, all but one of them, and one more
ArgumentNames(schema) ==
    {schema.properties, schema.properties \cup {"limit"}}
    \cup {schema.properties \ {p} : p \in schema.properties}

\* one direct call of execute_function_call
CallDispatcher ==
    /\ direct_call = NoDirectCall
    /\ \E i \in DOMAIN FUNCTION_SCHEMAS :
         \E keys \in ArgumentNames(FUNCTION_SCHEMAS[i]) :
           \E body \in Bodies(FUNCTION_SCHEMAS[i].name, 1) :
             LET function_name == FUNCTION_SCHEMAS[i].name
                 function_args == [type |-> "dict", keys |-> keys]
                 call == execute_function_call(function_name, function_args, body)
             IN  direct_call' =
                   [function |-> "execute_function_call",
                    args |-> [function_name |-> function_name,
                              function_args |-> function_args],
                    env |-> body, out |-> call.out, ran |-> call.ran]
    /\ UNCHANGED run_vars

NextDispatcher == CallDispatcher

SpecDispatcher == Init /\ [][NextDispatcher]_vars

---------------------------------------------------------------------------
(* The data providers: polygon_mock.get_forex_data, polygon_api.get_forex_data *)

\* a str of letters is the sequence of its characters
LowerLetters ==
    <<"a", "b", "c", "d", "e", "f", "g", "h", "i", "j", "k", "l", "m",
      "n", "o", "p", "q", "r", "s", "t", "u", "v", "w", "x", "y", "z">>

UpperLetters ==
    <<"A", "B", "C", "D", "E", "F", "G", "H", "I", "J", "K", "L", "M",
      "N", "O", "P", "Q", "R", "S", "T", "U", "V", "W", "X", "Y", "Z">>

UpperChar(c) ==
    IF \E i \in DOMAIN LowerLetters : LowerLetters[i] = c
    THEN UpperLetters[CHOOSE i \in DOMAIN LowerLetters : LowerLetters[i] = c]
    ELSE c

\* str.upper()
Upper(text) == [i \in DOMAIN text |-> UpperChar(text[i])]

\* timeframe_minutes.get(timeframe, 60)
timeframe_minutes(timeframe) ==
    CASE timeframe = "1m" -> 1
      [] timeframe = "5m" -> 5
      [] timeframe = "15m" -> 15
      [] timeframe = "30m" -> 30
      [] timeframe = "1h" -> 60
      [] timeframe = "4h" -> 240
      [] timeframe = "1d" -> 1440
      [] OTHER -> 60

\* price_ranges.get(pair.upper(), (1.0000, 1.2000)); a price is a whole
\* number of units of 0.00001
price_range(pair) ==
    LET symbol == Upper(pair)
    IN  CASE symbol = <<"E", "U", "R", "U", "S", "D">> -> <<105000, 112000>>
          [] symbol = <<"G", "B", "P", "U", "S", "D">> -> <<124000, 131000>>
          [] symbol = <<"U", "S", "D", "J", "P", "Y">> -> <<14000000, 15200000>>
          [] symbol = <<"A", "U", "D", "U", "S", "D">> -> <<63000, 68000>>
          [] symbol = <<"U", "S", "D", "C", "H", "F">> -> <<84000, 91000>>
          [] symbol = <<"G", "B", "P", "J", "P", "Y">> -> <<17500000, 19500000>>
          [] symbol = <<"E", "U", "R", "J", "P", "Y">> -> <<15000000, 16500000>>
          [] symbol = <<"A", "U", "D", "J", "P", "Y">> -> <<9000000, 10200000>>
          [] OTHER -> <<100000, 120000>>

\* round(x, 4) of a positive price: the nearest multiple of 0.0001
round4(x) == ((x + 5) \div 10) * 10

\* the outcomes of the random draws and of the clock reads of one call of
\* the generator.  u: random.uniform gives the low (0) or the high (1) end of
\* its range, for the first price, the wicks (0 or 0.001) and the volume;
\* change: the draws uniform(-0.002, 0.002) * price come to that many units
\* for every candle (0.0005 up or down, within 0.2 % of every price of the
\* tables); clock: datetime.now() reads `by` seconds more from the candle
\* numbered `at` on
RandomOutcomes ==
    [u : {0, 1}, change : {0 - 50, 50}, clock : [at : {2, 100}, by : 0..MaxTick]]

\* a candle stamp that counts the candles from the newest, so that the
\* oldest gets the latest time
StampNewestFirst(now, minutes, k) == now - 60 * minutes * k

\* timestamp = datetime.now() - timedelta(minutes=minutes * i), in seconds,
\* for the k-th candle built, i = 100 down to 1
Stamp(now, minutes, k) == now - 60 * minutes * (101 - k)

\* a pair field that echoes the symbol as it was asked for
SymbolAsGiven(pair) == pair

\* 'pair': pair.upper()
SymbolOf(pair) == Upper(pair)

\* datetime.now() at the k-th candle built
ClockAt(clock, k) == IF k >= clock.at THEN clock.by ELSE 0

\* the loop `for i in range(100, 0, -1)`: 100 candles, oldest first, the
\* price of each being the unrounded close of the one before
\* (price = close_price)
GenerateCandles(current_price, minutes, rnd) ==
    [k \in 1..100 |->
        LET price == current_price + (k - 1) * rnd.change
            close_price == price + rnd.change
        IN  [timestamp |-> Stamp(ClockAt(rnd.clock, k), minutes, k),
             open |-> round4(price),
             high |-> round4(price + 100 * rnd.u),
             low |-> round4(price - 100 * rnd.u),
             close |-> round4(close_price),
             volume |-> IF rnd.u = 0 THEN 50000 ELSE 500000]]

\* the return statement of the generator
MockSnapshot(pair, timeframe, candles) ==
    LET closes == [k \in DOMAIN candles |-> candles[k].close]
    IN  [pair |-> SymbolOf(pair), timeframe |-> timeframe,
         current_price |-> round4(closes[Len(closes)]),
         candles |-> candles,
         metadata |-> [data_points |-> Len(candles), source |-> "mock_data"]]

\* the synthetic generator polygon_mock.get_forex_data(pair, timeframe)
polygon_mock_get_forex_data(pair, timeframe, rnd) ==
    LET range == price_range(pair)
        current_price == round4(IF rnd.u = 0 THEN range[1] ELSE range[2])
    IN  Return(MockSnapshot(pair, timeframe,
                 GenerateCandles(current_price, timeframe_minutes(timeframe), rnd)))

\* an except clause that catches nothing
ProviderCatchesNothing(e) == FALSE

\* `except Exception` of polygon_api.get_forex_data, both the inner and the
\* outer one
ProviderCatches(e) == e.type \in ExceptionSubclasses

\* the body of the inner try: get_aggs, the check for no data, the
\* conversion of the aggregates and the indicators
FetchAndConvert(pair, timeframe, env) ==
    CASE env.aggs.kind = "raises" ->
           Raise(Exc("BadResponse", <<"Unknown API Key">>))
      [] env.aggs.kind \in {"none", "empty"} ->
           polygon_mock_get_forex_data(pair, timeframe, env.rnd)
      [] env.aggs.kind = "malformed" ->
           Raise(Exc("TypeError", <<"type NoneType doesn't define __round__ method">>))
      [] OTHER ->
           Return([pair |-> Upper(pair), timeframe |-> timeframe,
                   current_price |-> 109340,
                   candles |-> [k \in 1..env.aggs.n |->
                                  [timestamp |-> k, open |-> 109340, high |-> 109340,
                                   low |-> 109340, close |-> 109340, volume |-> 1]],
                   metadata |-> [data_points |-> env.aggs.n, source |-> "polygon.io"]])

\* the inner try statement
InnerTry(pair, timeframe, env) ==
    LET r == FetchAndConvert(pair, timeframe, env)
    IN  IF r.raised /\ ProviderCatches(r.exc)
        THEN polygon_mock_get_forex_data(pair, timeframe, env.rnd)
        ELSE r

\* the body of the outer try: the credential, the client, the inner try
OuterBody(pair, timeframe, env) ==
    IF env.secret = "raises"
    THEN Raise(Exc("FileNotFoundError", <<"No secrets files found.">>))
    ELSE IF env.secret \in {"none", "empty"}
    THEN polygon_mock_get_forex_data(pair, timeframe, env.rnd)
    ELSE IF env.client_init = "raises"
    THEN Raise(Exc("AuthError", <<"Must specify env var POLYGON_API_KEY">>))
    ELSE InnerTry(pair, timeframe, env)

\* polygon_api.get_forex_data(pair, timeframe) in the environment env
polygon_api_get_forex_data(pair, timeframe, env) ==
    LET r == OuterBody(pair, timeframe, env)
    IN  IF r.raised /\ ProviderCatches(r.exc)
        THEN polygon_mock_get_forex_data(pair, timeframe, env.rnd)
        ELSE r

\* requested symbols: upper case, lower case, mixed, one the generator has
\* no price range for
Pairs ==
    {<<"E", "U", "R", "U", "S", "D">>, <<"e", "u", "r", "u", "s", "d">>,
     <<"G", "b", "p", "J", "p", "y">>, <<"x", "a", "u", "u", "s", "d">>}

\* requested timeframes: the seven supported ones and two others
Timeframes == {"1m", "5m", "15m", "30m", "1h", "4h", "1d", "2h", "1H"}

\* what the live client's get_aggs may do: raise, return None or an empty
\* list, return aggregates with a field missing, return n aggregates
AggsOutcomes ==
    {[kind |-> k, n |-> 0] : k \in {"raises", "none", "empty"}}
    \cup {[kind |-> k, n |-> n] : k \in {"malformed", "rows"}, n \in 1..MaxAggs}

\* the environment of the live provider: st.secrets.get gives a key, None
\* or an empty text, or raises; RESTClient(api_key) succeeds or raises; rnd
\* is what the generator draws if it is called, here with a steady clock
ProviderEnvs ==
    [secret : {"key", "none", "empty", "raises"}, client_init : {"ok", "raises"},
     aggs : AggsOutcomes,
     rnd : {r \in RandomOutcomes : r.change > 0 /\ r.clock = [at |-> 2, by |-> 0]}]

\* one direct call of the live provider
CallProvider ==
    /\ direct_call = NoDirectCall
    /\ \E pair \in Pairs, timeframe \in Timeframes, env \in ProviderEnvs :
         direct_call' =
           [function |-> "polygon_api.get_forex_data",
            args |-> [pair |-> pair, timeframe |-> timeframe], env |-> env,
            out |-> polygon_api_get_forex_data(pair, timeframe, env)]
    /\ UNCHANGED run_vars

\* a registry that binds the name to the live provider
registered_get_forex_data_Live(pair, timeframe, env) ==
    polygon_api_get_forex_data(pair, timeframe, env)

\* AVAILABLE_FUNCTIONS["get_forex_data"]: the name imported from
\* utils.polygon_mock, whatever the state of the live backend
registered_get_forex_data(pair, timeframe, env) ==
    polygon_mock_get_forex_data(pair, timeframe, env.rnd)

\* the environment of a call through the registry: the live backend
\* without a key, raising, or working, and every outcome of the generator
RegistryEnvs ==
    [secret : {"key", "none"}, client_init : {"ok"},
     aggs : {a \in AggsOutcomes : a.kind \in {"raises", "rows"}},
     rnd : RandomOutcomes]

\* one direct call of the provider the registry holds
CallRegisteredProvider ==
    /\ direct_call = NoDirectCall
    /\ \E pair \in Pairs, timeframe \in Timeframes, env \in RegistryEnvs :
         direct_call' =
           [function |-> "get_forex_data",
            args |-> [pair |-> pair, timeframe |-> timeframe], env |-> env,
            out |-> registered_get_forex_data(pair, timeframe, env)]
    /\ UNCHANGED run_vars

NextProvider == CallProvider \/ CallRegisteredProvider

SpecProvider == Init /\ [][NextProvider]_vars

---------------------------------------------------------------------------
(* Vocabulary of the properties *)

Range(f) == {f[i] : i \in DOMAIN f}

IsPrefix(a, b) == Len(a) <= Len(b) /\ SubSeq(b, 1, Len(a)) = a

IsSuffix(a, b) == Len(a) <= Len(b) /\ SubSeq(b, Len(b) - Len(a) + 1, Len(b)) = a

EntriesOfType(log, type) == SelectSeq(log, LAMBDA entry : entry.type = type)

\* the assistant messages of the transcript: one per turn that requested tools
AssistantMessages == SelectSeq(messages, LAMBDA m : m.role = "assistant")

ToolMessages == SelectSeq(messages, LAMBDA m : m.role = "tool")

RECURSIVE RequestedFrom(_)
\* the tool-call requests of a sequence of assistant messages, in order
RequestedFrom(msgs) ==
    IF msgs = <<>> THEN <<>>
    ELSE Head(msgs).tool_calls.v \o RequestedFrom(Tail(msgs))

Requested == RequestedFrom(AssistantMessages)

NamesOf(calls) == [i \in DOMAIN calls |-> calls[i].name]

FunctionsOf(entries) == [i \in DOMAIN entries |-> entries[i].function]

Terminated == pc \in {"returned", "raised"}

---------------------------------------------------------------------------
(* Properties *)

\* what is left of a run: the turns left, the position within the turn, the
\* tool calls of the response left to process
Variant ==
    <<max_iterations - iteration,
      CASE pc = "tools" -> 2 [] pc = "loop" -> 1 [] OTHER -> 0,
      IF pc = "tools" THEN Len(tool_calls) - tc_index + 1 ELSE 0>>

\* the lexicographic order on triples of naturals, which is well-founded
LexLess(a, b) ==
    \/ a[1] < b[1]
    \/ a[1] = b[1] /\ a[2] < b[2]
    \/ a[1] = b[1] /\ a[2] = b[2] /\ a[3] < b[3]

\* C1: every run of run_analysis terminates, and the LLM client receives at
\* most max_iterations (10) requests in one run, whatever the client answers
\* and however many tool calls a response requests: a run that has not ended
\* can take a step, and every step brings the run closer to its end in a
\* well-founded order.
C1_TerminatesWithinCap ==
    /\ [](llm_requests <= max_iterations)
    /\ [](Terminated \/ ENABLED Next)
    /\ [](\A i \in 1..3 : Variant[i] >= 0)
    /\ [][LexLess(Variant', Variant)]_vars

\* a run that used all ten requests, one response asking for several tools
C1_Witness ==
    /\ pc = "returned"
    /\ llm_requests = max_iterations
    /\ \E i \in DOMAIN AssistantMessages : Len(AssistantMessages[i].tool_calls.v) > 1

\* C2: when ten turns in a row request tools and no step raises, the run
\* makes exactly ten LLM calls, logs a call and a result for every request of
\* all ten turns, and returns that log, without final_response or error
\* entry, with the fixed "exceeded maximum iterations" message.
C2_TenToolTurnsExceed ==
    (pc = "returned" /\ Len(AssistantMessages) >= max_iterations /\ handled = <<>>)
    => /\ llm_requests = max_iterations
       /\ Len(AssistantMessages) = max_iterations
       /\ returned.done
       /\ returned.log = execution_log
       /\ returned.answer = Some(ExceededMessage)
       /\ \A i \in DOMAIN execution_log :
            execution_log[i].type \in {"function_call", "function_result"}
       /\ FunctionsOf(EntriesOfType(execution_log, "function_call")) = NamesOf(Requested)
       /\ FunctionsOf(EntriesOfType(execution_log, "function_result")) = NamesOf(Requested)

C2_Witness ==
    /\ pc = "returned"
    /\ Len(AssistantMessages) = max_iterations
    /\ handled = <<>>
    /\ Len(Requested) > max_iterations

\* C3: run_analysis never lets an exception out: whatever the client does
\* (raises, answers without choices) and whatever the capabilities do, the
\* run does not end by raising, and once it has ended it has returned a pair
\* of a log and an answer.
C3_NeverRaises ==
    /\ pc # "raised"
    /\ pc = "returned" <=> returned.done

\* the client answered without choices, and the run returned
C3_Witness ==
    /\ pc = "returned"
    /\ returned.done
    /\ \E i \in DOMAIN handled : handled[i].exc.type = "IndexError"

\* log and answer of a run whose LLM-call step raised exception e on
\* submission k after the entries `before`
C4_Outcome(before, k, e) ==
    LET error_msg == <<"Error in iteration ", k, ": ">> \o e.msg
    IN  ReturnPair(Append(before, [type |-> "error", message |-> error_msg]),
                   Some(<<"Analysis error: ">> \o error_msg))

\* C4: when the LLM-call step raises on the k-th submission, the run appends
\* exactly one error entry to the log it had, returns that log (every earlier
\* call and result entry kept) with an answer that ends with the exception's
\* message, and makes no further LLM call and no further dispatch.
C4_LLMFailureIsFatal ==
    /\ [][(pc = "loop" /\ handled' # handled)
            => /\ llm_requests' = llm_requests + 1
               /\ returned' = C4_Outcome(execution_log, llm_requests', handled'[1].exc)
               /\ execution_log' = returned'.log
               /\ IsSuffix(handled'[1].exc.msg, returned'.answer.v)
               /\ pc' = "returned"
               /\ UNCHANGED <<invoked, messages>>]_vars
    /\ [][handled # <<>> => UNCHANGED <<llm_requests, invoked, execution_log, returned>>]_vars

\* the client raised on a later submission, after tool calls were logged
C4_Witness ==
    /\ pc = "returned"
    /\ handled # <<>>
    /\ handled[1].origin = "llm"
    /\ handled[1].exc.type = "APIConnectionError"
    /\ llm_requests > 1
    /\ Len(execution_log) > 1

\* C5 (as claimed): a run ends in the error state only if the LLM-call step
\* itself raised; no tool-call request of the model, whatever its name or its
\* arguments, ends the run in the error state.
C5_ErrorStateOnlyFromLLMCall ==
    (pc = "returned" /\ EntriesOfType(execution_log, "error") # <<>>)
    => \A i \in DOMAIN handled : handled[i].origin = "llm"

IsErrorRecord(result) == "error" \in DOMAIN result

\* the dispatch of this step did not come back with a capability's findings:
\* the name is unknown, the arguments do not fit, or the capability raised
DispatchFails ==
    /\ pc = "tools"
    /\ ~json_loads(tool_calls[tc_index].arguments).raised
    /\ ~(last_dispatch'.ran /\ ~last_dispatch'.body.raises)

\* C6: a capability failure never aborts the loop: the failed dispatch comes
\* back as an ErrorRecord that is logged as the function_result of the call
\* and appended to the transcript as the tool message of the request; the
\* next request of the same response is processed next, and after the last
\* one the loop is back at its head, where below the cap the transcript is
\* submitted again.
C6_CapabilityFailureGoesOn ==
    /\ [][DispatchFails
            => LET tool_call == tool_calls[tc_index]
                   result == last_dispatch'.out.value
               IN  /\ ~last_dispatch'.out.raised
                   /\ IsErrorRecord(result)
                   /\ Len(execution_log') = Len(execution_log) + 2
                   /\ IsPrefix(execution_log, execution_log')
                   /\ execution_log'[Len(execution_log')] =
                        [type |-> "function_result", function |-> tool_call.name,
                         result |-> result]
                   /\ messages' = Append(messages,
                                         [role |-> "tool", tool_call_id |-> tool_call.id,
                                          name |-> tool_call.name,
                                          content |-> json_dumps(result)])
                   /\ ~returned'.done
                   /\ IF tc_index < Len(tool_calls)
                      THEN pc' = "tools" /\ tc_index' = tc_index + 1
                      ELSE pc' = "loop"]_vars
    /\ [](pc = "loop" /\ iteration < max_iterations => ENABLED CallLLM)
    /\ [][pc = "loop" /\ iteration < max_iterations
            => llm_requests' = llm_requests + 1]_vars

\* an ErrorRecord was logged for the first request of a response, the second
\* request was processed, and the transcript was submitted again
C6_Witness ==
    /\ Len(execution_log) >= 4
    /\ execution_log[2].type = "function_result"
    /\ IsErrorRecord(execution_log[2].result)
    /\ Len(AssistantMessages) = 1
    /\ llm_requests = 2

Paired(log) ==
    \A i \in DOMAIN log :
        log[i].type = "function_call"
        => /\ i < Len(log)
           /\ log[i + 1].type = "function_result"
           /\ log[i + 1].function = log[i].function

\* C7: in the log run_analysis returns, in every outcome, each function_call
\* entry is directly followed by a function_result entry for the same
\* function, and the pairs come in the order of the requests.
C7_CallsPairedInOrder ==
    /\ Paired(execution_log)
    /\ IsPrefix(FunctionsOf(EntriesOfType(execution_log, "function_call")),
                NamesOf(Requested))
    /\ pc = "returned" => returned.log = execution_log

\* a run that ended in the error state after it had dispatched tool calls
C7_Witness ==
    /\ pc = "returned"
    /\ EntriesOfType(returned.log, "error") # <<>>
    /\ EntriesOfType(returned.log, "function_call") # <<>>

\* C8: for a name that is not registered, execute_function_call returns an
\* ErrorRecord whose text contains the name, does not raise and enters no
\* capability, whatever the arguments are.
C8_UnknownNameIsErrorRecord ==
    /\ (last_dispatch.called /\ last_dispatch.name \notin DOMAIN AVAILABLE_FUNCTIONS)
       => /\ ~last_dispatch.out.raised
          /\ IsErrorRecord(last_dispatch.out.value)
          /\ last_dispatch.name \in Range(last_dispatch.out.value.error)
          /\ ~last_dispatch.ran
    /\ Range(invoked) \subseteq DOMAIN AVAILABLE_FUNCTIONS

\* an unregistered name dispatched with arguments that are not a mapping
C8_Witness ==
    /\ last_dispatch.called
    /\ last_dispatch.name = "get_stock_data"
    /\ last_dispatch.args.type = "list"

\* C9: for a registered name, execute_function_call never raises: when the
\* capability raises, it returns the ErrorRecord of the exception's message,
\* and when the capability returns, it returns that result unchanged.
C9_RegisteredNameNeverRaises ==
    (last_dispatch.called /\ last_dispatch.name \in DOMAIN AVAILABLE_FUNCTIONS)
    => /\ ~last_dispatch.out.raised
       /\ (last_dispatch.ran /\ last_dispatch.body.raises)
          => last_dispatch.out.value = ErrorRecord(last_dispatch.body.exc.msg)
       /\ (last_dispatch.ran /\ ~last_dispatch.body.raises)
          => last_dispatch.out.value = last_dispatch.body.value

\* a capability raised while it ran
C9_Witness ==
    /\ last_dispatch.called
    /\ last_dispatch.ran
    /\ last_dispatch.body.raises
    /\ last_dispatch.name = "get_forex_data"

\* the parsed arguments do not fit the parameters of the registered function
ShapeMismatch(function_name, function_args) ==
    \/ function_args.type # "dict"
    \/ function_args.keys # AVAILABLE_FUNCTIONS[function_name]

\* C10: when the arguments of a call to a registered function do not fit
\* (a parameter is missing, a name is unexpected, or they are no mapping),
\* execute_function_call returns an ErrorRecord that carries the text of the
\* exception Python raised for the call, and the capability's body does not
\* run.
C10_ShapeMismatchIsErrorRecord ==
    (/\ last_dispatch.called
     /\ last_dispatch.name \in DOMAIN AVAILABLE_FUNCTIONS
     /\ ShapeMismatch(last_dispatch.name, last_dispatch.args))
    => /\ ~last_dispatch.ran
       /\ ~last_dispatch.out.raised
       /\ IsErrorRecord(last_dispatch.out.value)
       /\ Len(last_dispatch.out.value.error) >= 2
       /\ last_dispatch.out.value.error[1] = last_dispatch.name

\* detect_news_impact_zones(pair) called with an unexpected timeframe
C10_Witness ==
    /\ last_dispatch.called
    /\ last_dispatch.name = "detect_news_impact_zones"
    /\ last_dispatch.args = [type |-> "dict", keys |-> {"pair", "timeframe"}]
    /\ ~last_dispatch.ran

\* the LLM-call step yielded a message that requests no tool call: its
\* tool_calls is None or an empty list
NoToolCalls(reply) ==
    /\ ~reply.raised
    /\ reply.value.tool_calls.is_none \/ reply.value.tool_calls.v = <<>>

FinalEntry(content) == [type |-> "final_response", content |-> content]

\* C11: when the first LLM response requests no tool call (tool_calls None
\* or an empty list), run_analysis returns at that step, after exactly one
\* LLM call: the registry has not been looked up, no capability has run, the
\* log is the single final_response entry, and nothing happens afterwards.
C11_FirstResponseWithoutToolsEndsRun ==
    /\ [][(llm_requests = 0 /\ llm_requests' = 1 /\ NoToolCalls(llm_reply'))
           => /\ pc' = "returned"
              /\ returned'.done
              /\ execution_log' = <<FinalEntry(llm_reply'.value.content)>>
              /\ returned'.log = execution_log'
              /\ invoked' = <<>>
              /\ ~last_dispatch'.called]_vars
    /\ []((pc = "returned" /\ iteration = 1) => (llm_requests = 1 /\ ~ENABLED Next))

\* the first response carries an empty list of tool calls
C11_Witness ==
    /\ pc = "returned"
    /\ llm_requests = 1
    /\ llm_reply = Return(Message(NoneValue, Some(<<>>)))
    /\ Len(execution_log) = 1

\* C12: on any turn, an LLM response that requests no tool call ends the
\* run: run_analysis appends one final_response entry holding the response's
\* content, returns the log with that same content as the final answer, and
\* makes no LLM call and no dispatch afterwards.
C12_ResponseWithoutToolsIsTerminal ==
    /\ [][(llm_requests' = llm_requests + 1 /\ NoToolCalls(llm_reply'))
           => /\ pc' = "returned"
              /\ execution_log' =
                   Append(execution_log, FinalEntry(llm_reply'.value.content))
              /\ returned' =
                   [done |-> TRUE, log |-> execution_log',
                    answer |-> llm_reply'.value.content]
              /\ UNCHANGED <<messages, invoked, last_dispatch>>]_vars
    /\ [][pc = "returned"
           => UNCHANGED <<llm_requests, invoked, last_dispatch, execution_log, returned>>]_vars

\* the tenth response is the one without tool calls, after nine tool turns
C12_Witness ==
    /\ pc = "returned"
    /\ llm_requests = max_iterations
    /\ NoToolCalls(llm_reply)
    /\ Len(ToolMessages) >= max_iterations - 1
    /\ execution_log[Len(execution_log)].type = "final_response"

\* C13: in every outcome of run_analysis the final answer, the second
\* component of the returned pair, is a string and never None, whatever
\* response the client interface allows (content a string or None).
C13_FinalAnswerIsString ==
    returned.done => ~returned.answer.is_none

ResultEntries == EntriesOfType(execution_log, "function_result")

\* the tool messages that answer `calls`, results[i] being the log entry of
\* the result of calls[i]
ToolMessagesFor(calls, results) ==
    [i \in DOMAIN calls |->
        [role |-> "tool", tool_call_id |-> calls[i].id, name |-> calls[i].name,
         content |-> [json |-> "object", of |-> results[i].result]]]

RECURSIVE Exchange(_, _)
\* the part of a transcript that the assistant messages msgs give rise to:
\* each followed by one tool message per request, in request order
Exchange(msgs, results) ==
    IF msgs = <<>> THEN <<>>
    ELSE LET calls == Head(msgs).tool_calls.v
             n == Len(calls)
         IN  <<Head(msgs)>> \o ToolMessagesFor(calls, SubSeq(results, 1, n))
             \o Exchange(Tail(msgs), SubSeq(results, n + 1, Len(results)))

\* C14: whenever run_analysis submits the transcript again after responses
\* that requested tools, the submitted transcript holds, directly after each
\* assistant message with n requests, exactly n tool messages in request
\* order, the i-th carrying the i-th request's identifier, its capability name
\* and the JSON serialization of the result logged for it.
C14_ToolMessagesFollowRequests ==
    [][llm_requests' = llm_requests + 1
       => /\ Len(ResultEntries) = Len(Requested)
          /\ llm_request'.messages =
               SubSeq(messages, 1, 2) \o Exchange(AssistantMessages, ResultEntries)]_vars

\* a transcript submitted after a response with several requests, one of
\* them answered by an error record
C14_Witness ==
    /\ llm_requests >= 2
    /\ \E i \in DOMAIN llm_request.messages :
         /\ llm_request.messages[i].role = "assistant"
         /\ Len(llm_request.messages[i].tool_calls.v) > 1
         /\ i + 2 <= Len(llm_request.messages)
         /\ llm_request.messages[i + 1].role = "tool"
         /\ llm_request.messages[i + 2].role = "tool"
    /\ \E j \in DOMAIN ResultEntries : "error" \in DOMAIN ResultEntries[j].result

\* C15: the transcript of a run opens with the fixed system message
\* followed by the user's query message, and it only grows by appending: at
\* every step the transcript before the step is a prefix of the one after.
C15_TranscriptOpensFixedAndOnlyGrows ==
    /\ [](/\ Len(messages) >= 2
          /\ messages[1] = [role |-> "system", content |-> SYSTEM_PROMPT]
          /\ messages[2] = [role |-> "user", content |-> Query])
    /\ [][IsPrefix(messages, messages')]_vars

\* a transcript that grew by an exchange on each of the ten turns
C15_Witness ==
    /\ pc = "returned"
    /\ Len(messages) >= 2 + 2 * max_iterations
    /\ messages[3].role = "assistant"
    /\ messages[Len(messages)].role = "tool"

\* C16: every request run_analysis submits to the LLM client carries the
\* whole transcript as it stands at that point, all tool messages of the
\* earlier turns included, the complete tool schema catalog, tool_choice
\* "auto", and a bounded max_tokens.
C16_RequestCarriesTranscriptAndCatalog ==
    [][llm_requests' = llm_requests + 1
       => /\ llm_request'.sent
          /\ llm_request'.messages = messages
          /\ \A i \in DOMAIN ToolMessages :
               ToolMessages[i] \in Range(llm_request'.messages)
          /\ llm_request'.tools = FUNCTION_SCHEMAS
          /\ llm_request'.tool_choice = "auto"
          /\ llm_request'.max_tokens \in 1..max_tokens]_vars

\* a request of a later turn, sent with tool results in the transcript
C16_Witness ==
    /\ llm_requests >= 3
    /\ llm_request.sent
    /\ Len(SelectSeq(llm_request.messages, LAMBDA m : m.role = "tool")) >= 2

SchemaNames == [i \in DOMAIN FUNCTION_SCHEMAS |-> FUNCTION_SCHEMAS[i].name]

\* C17: the catalog and the registry are consistent: the names of the
\* catalog's entries are the keys of the registry (every advertised name
\* resolves, every registered name is advertised) and no two entries share a
\* name (there are as many entries as names); so a dispatch under an
\* advertised name is never answered "not found".
C17_CatalogMatchesRegistry ==
    /\ Range(SchemaNames) = DOMAIN AVAILABLE_FUNCTIONS
    /\ Len(SchemaNames) = Cardinality(Range(SchemaNames))
    /\ (last_dispatch.called /\ last_dispatch.name \in Range(SchemaNames))
         => last_dispatch.out.value
              # ErrorRecord(<<"Function ", last_dispatch.name, " not found">>)

\* a name the request advertised was requested, resolved and run
C17_Witness ==
    /\ llm_request.sent
    /\ last_dispatch.called
    /\ last_dispatch.name = "detect_news_impact_zones"
    /\ \E i \in DOMAIN llm_request.tools : llm_request.tools[i].name = last_dispatch.name
    /\ last_dispatch.ran

CallEntries == EntriesOfType(execution_log, "function_call")

\* C18 as stated: in any run that dispatches at least one tool call, the
\* first dispatched tool call is get_forex_data; no analysis capability is
\* dispatched before it.
C18_FirstDispatchIsDataProvider ==
    CallEntries # <<>> => CallEntries[1].function = "get_forex_data"

\* C18, amended: in any run that dispatches at least one tool call, the
\* first dispatched tool call is the first request of the first response
\* that requested tools, under whatever name the model gave it, and the
\* dispatches follow the order of the requests; so it is get_forex_data
\* exactly when the model requested that first.
C18_FirstDispatchIsFirstRequest ==
    /\ Len(CallEntries) <= Len(Requested)
    /\ FunctionsOf(CallEntries) = SubSeq(NamesOf(Requested), 1, Len(CallEntries))
    /\ CallEntries # <<>>
         => (CallEntries[1].function = "get_forex_data"
               <=> Requested[1].name = "get_forex_data")

\* an analysis capability requested, and dispatched, ahead of get_forex_data
C18_Witness ==
    /\ Len(CallEntries) >= 2
    /\ CallEntries[1].function = "detect_news_impact_zones"
    /\ CallEntries[2].function = "get_forex_data"
    /\ Requested[1].name = "detect_news_impact_zones"
    /\ invoked # <<>>
    /\ invoked[1] = "detect_news_impact_zones"

\* C19: every analysis capability that has a minimum candle count, called
\* with a snapshot whose candle sequence is shorter than that minimum, an
\* empty or a missing candle sequence included, returns a record that
\* carries an "Insufficient data" message, and does not raise.
C19_TooFewCandlesIsInsufficientData ==
    (/\ direct_call.function \in DOMAIN MinCandles
     /\ Len(DictGet(direct_call.args.data, "candles", <<>>))
          < MinCandles[direct_call.function])
    => /\ ~direct_call.out.raised
       /\ "message" \in DOMAIN direct_call.out.value
       /\ direct_call.out.value.message[1] = "Insufficient data"

\* a snapshot without candle sequence, in an environment where the reads of
\* candle fields raise: the guard answers before any candle is read
C19_Witness ==
    /\ direct_call.function = "detect_wyckoff_phases"
    /\ "candles" \notin DOMAIN direct_call.args.data
    /\ direct_call.env.raises
    /\ direct_call.out = Return([phase |-> NoneValue, message |-> <<"Insufficient data">>])

\* the credential is absent, or the live client raises at some step, or
\* it returns no data
LiveProviderFails(env) ==
    \/ env.secret # "key"
    \/ env.client_init = "raises"
    \/ env.aggs.kind \in {"raises", "malformed", "none", "empty"}

\* C20: the live provider fails closed: when the credential is absent, or
\* the live client raises at any step, or it returns empty data,
\* polygon_api.get_forex_data does not raise and returns the synthetic
\* generator's snapshot, its pair the requested symbol in upper case, its
\* timeframe the requested one, its candle sequence not empty.
C20_LiveProviderFailsClosed ==
    (/\ direct_call.function = "polygon_api.get_forex_data"
     /\ LiveProviderFails(direct_call.env))
    => /\ ~direct_call.out.raised
       /\ direct_call.out.value.metadata.source = "mock_data"
       /\ Len(direct_call.out.value.pair) = Len(direct_call.args.pair)
       /\ \A i \in DOMAIN direct_call.args.pair :
            \E j \in DOMAIN UpperLetters :
              /\ direct_call.out.value.pair[i] = UpperLetters[j]
              /\ direct_call.args.pair[i] \in {UpperLetters[j], LowerLetters[j]}
       /\ direct_call.out.value.timeframe = direct_call.args.timeframe
       /\ direct_call.out.value.candles # <<>>

\* the client raises in get_aggs for a lower-case symbol and a timeframe
\* that is not supported
C20_Witness ==
    /\ direct_call.function = "polygon_api.get_forex_data"
    /\ direct_call.args = [pair |-> <<"e", "u", "r", "u", "s", "d">>, timeframe |-> "2h"]
    /\ direct_call.env.secret = "key"
    /\ direct_call.env.client_init = "ok"
    /\ direct_call.env.aggs.kind = "raises"
    /\ direct_call.out.value.pair = <<"E", "U", "R", "U", "S", "D">>
    /\ direct_call.out.value.metadata.source = "mock_data"

\* C21: the data provider the registry dispatches under the name
\* get_forex_data is selected by availability: it uses the live backend
\* when that is configured and working, and the synthetic generator only as
\* a fallback, when the live backend is unconfigured or fails.
C21_ProviderSelectedByAvailability ==
    direct_call.function = "get_forex_data"
    => direct_call.out.value.metadata.source
         = IF LiveProviderFails(direct_call.env) THEN "mock_data" ELSE "polygon.io"

\* the call went to the generator the registry holds, and returned
FromGenerator ==
    direct_call.function = "get_forex_data" /\ ~direct_call.out.raised

\* C22: every snapshot the synthetic get_forex_data returns has its candles
\* ordered oldest to newest with strictly increasing timestamps, for every
\* timeframe string, supported or not (the clock not running backwards
\* while the candles are built).
C22_MockTimestampsStrictlyIncrease ==
    FromGenerator
    => \A k \in 1..(Len(direct_call.out.value.candles) - 1) :
         direct_call.out.value.candles[k].timestamp
           < direct_call.out.value.candles[k + 1].timestamp

\* a timeframe that is not supported, the clock moving on at the last candle
C22_Witness ==
    /\ FromGenerator
    /\ direct_call.args.timeframe = "2h"
    /\ direct_call.env.rnd.clock = [at |-> 100, by |-> 1]
    /\ direct_call.out.value.candles[99].timestamp = 0 - 2 * 3600
    /\ direct_call.out.value.candles[100].timestamp = 1 - 3600

\* C25: every snapshot get_forex_data returns has a timeframe field that is
\* one of 1m, 5m, 15m, 30m, 1h, 4h, 1d, for every timeframe string it is
\* called with.
C25_TimeframeFieldIsSupported ==
    FromGenerator
    => direct_call.out.value.timeframe \in {"1m", "5m", "15m", "30m", "1h", "4h", "1d"}

\* C29: every snapshot the synthetic get_forex_data returns for string
\* inputs has exactly 100 candles, metadata.data_points equal to the candle
\* count, current_price equal to the close of the newest candle, pair equal
\* to the requested symbol in upper case, and source "mock_data"; an unknown
\* symbol or an unknown timeframe does not raise.
C29_MockSnapshotShape ==
    direct_call.function = "get_forex_data"
    => /\ ~direct_call.out.raised
       /\ Len(direct_call.out.value.candles) = 100
       /\ direct_call.out.value.metadata.data_points = Len(direct_call.out.value.candles)
       /\ direct_call.out.value.current_price
            = direct_call.out.value.candles[Len(direct_call.out.value.candles)].close
       /\ Len(direct_call.out.value.pair) = Len(direct_call.args.pair)
       /\ \A i \in DOMAIN direct_call.args.pair :
            \E j \in DOMAIN UpperLetters :
              /\ direct_call.out.value.pair[i] = UpperLetters[j]
              /\ direct_call.args.pair[i] \in {UpperLetters[j], LowerLetters[j]}
       /\ direct_call.out.value.metadata.source = "mock_data"

\* a symbol without price range and a timeframe that is not supported
C29_Witness ==
    /\ FromGenerator
    /\ direct_call.args = [pair |-> <<"x", "a", "u", "u", "s", "d">>, timeframe |-> "1H"]
    /\ direct_call.env.rnd.u = 1
    /\ direct_call.env.rnd.change < 0
    /\ direct_call.out.value.pair = <<"X", "A", "U", "U", "S", "D">>
    /\ direct_call.out.value.current_price = 120000 - 100 * 50
    /\ Len(direct_call.out.value.candles) = 100

\* the entry types that close a log
TerminalTypes == {"final_response", "error"}

\* the number of entries of the log before its terminal entry, if it has one
PairsPart(log) ==
    IF log # <<>> /\ log[Len(log)].type \in TerminalTypes THEN Len(log) - 1 ELSE Len(log)

\* run_analysis returned from the statement after the loop: no except clause
\* ran and the last response asked for tool calls
ExceededRun ==
    /\ pc = "returned"
    /\ handled = <<>>
    /\ ~llm_reply.raised
    /\ ~Falsy(llm_reply.value.tool_calls)

AdvertisedAs(function_name, function_args) ==
    {i \in DOMAIN FUNCTION_SCHEMAS :
       /\ FUNCTION_SCHEMAS[i].name = function_name
       /\ FUNCTION_SCHEMAS[i].properties = function_args.keys}

\* C28: for every entry of FUNCTION_SCHEMAS the advertised parameter names
\* are the parameters of the function registered under the same name, all
\* of them marked required, so a tool call that supplies exactly the
\* advertised parameters is never answered with an ErrorRecord for the
\* shape of its arguments: the capability body is entered.
C28_AdvertisedParametersBind ==
    /\ \A i \in DOMAIN FUNCTION_SCHEMAS :
         /\ FUNCTION_SCHEMAS[i].name \in DOMAIN AVAILABLE_FUNCTIONS
         /\ FUNCTION_SCHEMAS[i].properties = AVAILABLE_FUNCTIONS[FUNCTION_SCHEMAS[i].name]
         /\ Range(FUNCTION_SCHEMAS[i].required) = FUNCTION_SCHEMAS[i].properties
    /\ (/\ direct_call.function = "execute_function_call"
        /\ AdvertisedAs(direct_call.args.function_name,
                        direct_call.args.function_args) # {})
       => /\ direct_call.ran
          /\ ~direct_call.out.raised
          /\ direct_call.out.value
               = IF direct_call.env.raises
                 THEN ErrorRecord(direct_call.env.exc.msg)
                 ELSE direct_call.env.value

\* a capability of two parameters, called with both, its body returning
C28_Witness ==
    /\ direct_call.function = "execute_function_call"
    /\ direct_call.args.function_name = "analyze_higher_timeframe_structure"
    /\ direct_call.args.function_args.keys = {"pair", "current_timeframe"}
    /\ direct_call.ran
    /\ direct_call.out = Return(Findings("analyze_higher_timeframe_structure"))

\* C24: no analysis capability of the registry modifies the snapshot passed
\* to it as its data argument (its candles, indicators or other fields),
\* whether it returns findings, an insufficient-data record, or raises.
C24_CapabilitiesLeaveSnapshotUnchanged ==
    direct_call.function \in DOMAIN MinCandles \cup UnguardedCapabilities
    => direct_call.after = direct_call.args.data

\* a capability that sorts the list of its findings in place, and raised
C24_Witness ==
    /\ direct_call.function = "identify_liquidity_pools"
    /\ DOMAIN direct_call.args.data = {"candles", "current_price", "indicators"}
    /\ Len(direct_call.args.data.candles) = 45
    /\ direct_call.out.raised
    /\ direct_call.out.exc.type = "ValueError"
    /\ direct_call.after.candles = Candles(45)

\* C27: every analysis capability that has a minimum candle count returns a
\* findings record without raising whenever it is given a well-formed
\* snapshot with at least that number of candles (all candle fields
\* present), for every outcome of its random choices; in particular
\* identify_liquidity_pools does so for every candle count >= 40.
C27_EnoughCandlesNeverRaises ==
    (/\ direct_call.function \in DOMAIN MinCandles
     /\ DOMAIN direct_call.args.data = {"candles", "current_price", "indicators"}
     /\ ~direct_call.env.raises
     /\ Len(direct_call.args.data.candles) >= MinCandles[direct_call.function])
    => /\ ~direct_call.out.raised
       /\ direct_call.out.value = Findings(direct_call.function)

\* the assistant messages of a transcript
AssistantOf(msgs) == SelectSeq(msgs, LAMBDA m : m.role = "assistant")

\* the query the call with the given number was made with
QueryOf(id) == IF id = 1 THEN Query ELSE OtherQuery

====
